---- MODULE Spec2Model ----
(***************************************************************************)
(* A model of teuvo's core (nbs/00_core.ipynb): the Scheduler with its     *)
(* exponential decay, and the SOM class (weight initialisation, BMU        *)
(* search, the neighbourhood update, fit, the metrics, transform and the   *)
(* U-matrix).                                                              *)
(*                                                                         *)
(* Numbers.  The code computes in IEEE doubles.  Here a finite number is   *)
(* a fixed-point integer with FP units to 1.0, and the IEEE outcomes of a  *)
(* division by zero are kept as they are: a scalar is a record             *)
(* [k |-> "num" | "nan" | "inf" | "ninf", v |-> units].                    *)
(***************************************************************************)
EXTENDS Integers, Sequences, FiniteSets, TLC

FP == 10 ^ 4

Num(v) == [k |-> "num", v |-> v]
NaN    == [k |-> "nan", v |-> 0]
Inf    == [k |-> "inf", v |-> 0]
NegInf == [k |-> "ninf", v |-> 0]

Abs(a) == IF a < 0 THEN -a ELSE a
Max2(a, b) == IF a >= b THEN a ELSE b

----------------------------------------------------------------------------
(* np.exp and np.log at fixed-point precision.                             *)

RECURSIVE ExpSeries(_, _, _)
\* sum for j >= k of (-f)^j / j!, `term` being the term of index k-1
ExpSeries(f, k, term) ==
    IF k > 8 THEN 0
    ELSE LET t == IF term >= 0 THEN -((term * f) \div (k * FP))
                  ELSE ((-term) * f) \div (k * FP)
         IN  t + ExpSeries(f, k + 1, t)

RECURSIVE PowInvE(_)
\* exp(-q) for a natural q; 3679 is exp(-1) in units of FP
PowInvE(q) == IF q = 0 THEN FP ELSE (PowInvE(q - 1) * 3679) \div FP

\* exp(-x), x >= 0 in units
ExpNeg(x) ==
    IF x > 12 * FP THEN 0
    ELSE ((FP + ExpSeries(x % FP, 1, FP)) * PowInvE(x \div FP)) \div FP

\* np.exp of a finite argument, in units
ExpFx(x) == IF x <= 0 THEN ExpNeg(-x) ELSE (FP * FP) \div ExpNeg(x)

RECURSIVE LnSearch(_, _, _)
LnSearch(y, lo, hi) ==
    IF lo >= hi THEN lo
    ELSE LET mid == (lo + hi + 1) \div 2
         IN  IF ExpFx(mid) <= y THEN LnSearch(y, mid, hi)
             ELSE LnSearch(y, lo, mid - 1)

\* np.log of a finite positive argument, in units
LnFx(y) == LnSearch(y, -(10 * FP), 3 * FP)

\* np.exp on the extended scalars
np_exp(x) ==
    CASE x.k = "nan"  -> NaN
      [] x.k = "ninf" -> Num(0)
      [] x.k = "inf"  -> Inf
      [] OTHER        -> Num(ExpFx(x.v))

\* np.log of a Python float >= 0: log(0.0) is -inf (a warning, no exception)
np_log(y) == IF y = 0 THEN NegInf ELSE Num(LnFx(y))

----------------------------------------------------------------------------
(* exp_sched: decay = -np.log(end_val/start_val)/n_steps;                  *)
(*            return start_val * np.exp(-decay * i)                        *)
(* start_val and end_val are Python numbers >= 0 (units), i and n_steps    *)
(* Python ints.  The result is [raised, val]: end_val/start_val is a       *)
(* Python division and raises ZeroDivisionError for start_val = 0; the     *)
(* division by n_steps is numpy's and yields inf or nan for n_steps = 0.   *)

\* -np.log(r) / n_steps
Decay(lg, n_steps) ==
    LET neg == CASE lg.k = "ninf" -> Inf
                 [] lg.k = "inf"  -> NegInf
                 [] OTHER         -> Num(-lg.v)
    IN  IF neg.k # "num"
        THEN neg                                   \* inf / n = inf, also n = 0
        ELSE IF n_steps = 0
             THEN (IF neg.v = 0 THEN NaN
                   ELSE IF neg.v > 0 THEN Inf ELSE NegInf)
             ELSE Num(neg.v \div n_steps)

\* -decay * i
NegDecayTimes(decay, i) ==
    CASE decay.k = "nan"  -> NaN
      [] decay.k = "inf"  -> (IF i = 0 THEN NaN ELSE NegInf)
      [] decay.k = "ninf" -> (IF i = 0 THEN NaN ELSE Inf)
      [] OTHER            -> Num(-(decay.v * i))

\* start_val * e, for start_val > 0
TimesStart(start_val, e) ==
    IF e.k = "num" THEN Num((start_val * e.v) \div FP) ELSE e

exp_sched(start_val, end_val, i, n_steps) ==
    IF start_val = 0
    THEN [raised |-> TRUE, val |-> NaN]
    ELSE LET ratio == (end_val * FP) \div start_val
             decay == Decay(np_log(ratio), n_steps)
         IN  [raised |-> FALSE,
              val |-> TimesStart(start_val, np_exp(NegDecayTimes(decay, i)))]

----------------------------------------------------------------------------
(* class Scheduler                                                         *)

NoScheduler ==
    [alive |-> FALSE, start_val |-> 0, end_val |-> 0, step_size |-> 0,
     total_steps |-> 0, current_step |-> 0, current_value |-> Num(0)]

\* Scheduler.__init__: [raised, obj].  (n_samples * n_epochs) // step_size is
\* an integer floor division and raises ZeroDivisionError for step_size = 0;
\* nothing else is validated.
Scheduler(start_val, end_val, step_size, n_samples, n_epochs) ==
    IF step_size = 0
    THEN [raised |-> TRUE, obj |-> NoScheduler]
    ELSE [raised |-> FALSE,
          obj |-> [alive |-> TRUE, start_val |-> start_val, end_val |-> end_val,
                   step_size |-> step_size,
                   total_steps |-> (n_samples * n_epochs) \div step_size,
                   current_step |-> 0, current_value |-> Num(start_val)]]

\* step with the increment moved before the recomputation
step_increment_first(s, total_samples) ==
    IF total_samples % s.step_size = 0
    THEN LET d == exp_sched(s.start_val, s.end_val, s.current_step + 1, s.total_steps)
         IN  IF d.raised
             THEN [raised |-> TRUE, obj |-> s, ret |-> NaN]
             ELSE [raised |-> FALSE,
                   obj |-> [s EXCEPT !.current_value = d.val,
                                     !.current_step = s.current_step + 1],
                   ret |-> d.val]
    ELSE [raised |-> FALSE, obj |-> s, ret |-> s.current_value]

\* Scheduler.step: [raised, obj, ret].  An exception of decay_fn leaves the
\* object as it was (the assignment never happens).
step(s, total_samples) ==
    IF total_samples % s.step_size = 0
    THEN LET d == exp_sched(s.start_val, s.end_val, s.current_step, s.total_steps)
         IN  IF d.raised
             THEN [raised |-> TRUE, obj |-> s, ret |-> NaN]
             ELSE [raised |-> FALSE,
                   obj |-> [s EXCEPT !.current_value = d.val,
                                     !.current_step = s.current_step + 1],
                   ret |-> d.val]
    ELSE [raised |-> FALSE, obj |-> s, ret |-> s.current_value]

----------------------------------------------------------------------------
(* Arrays.  A weight grid is [exists, shape, nan, data]: shape is          *)
(* <<rows, cols, dim>> of the numpy array, data its cells in row-major     *)
(* (flattened) order, each a sequence of dim fixed-point components.  A    *)
(* NaN learning rate or radius makes every component NaN in one update     *)
(* (NaN times anything is NaN), after which it stays NaN: nan says so and  *)
(* data is then kept at zeros.                                             *)

NoWeights == [exists |-> FALSE, shape |-> <<0, 0, 0>>, nan |-> FALSE, data |-> <<>>]

ZeroVec(d) == [j \in 1..d |-> 0]

NCells(w) == w.shape[1] * w.shape[2]

\* the cell at [r, c] of the array (0-based)
Cell(w, r, c) == w.data[r * w.shape[2] + c + 1]

RECURSIVE SumSq(_, _, _)
SumSq(u, v, j) == IF j = 0 THEN 0 ELSE (u[j] - v[j]) * (u[j] - v[j]) + SumSq(u, v, j - 1)

RECURSIVE SqrtNewton(_, _)
\* Newton's iteration from a guess x >= sqrt(n): it decreases to the floor
SqrtNewton(n, x) ==
    LET y == (x + n \div x) \div 2
    IN  IF y < x THEN SqrtNewton(n, y) ELSE x

\* floor of the square root, n < (4 * FP)^2
Isqrt(n) == IF n = 0 THEN 0 ELSE SqrtNewton(n, 4 * FP)

\* np.linalg.norm(v - u), both of finite components (units)
Norm(u, v) == Isqrt(SumSq(u, v, Len(u)))

\* dist_fn(x, ws): the distance of x to every cell, in flattened order
dist_fn(x, w) ==
    [n \in 1..NCells(w) |-> IF w.nan THEN NaN ELSE Num(Norm(x, w.data[n]))]

\* a < b on scalars the way numpy's argmin and sort order them: NaN after
\* every number
Less(a, b) == a.k = "num" /\ (b.k = "nan" \/ a.v < b.v)

\* np.argmin(distances), 0-based: the first minimum in flattened order, and
\* the first NaN when there is one
np_argmin(ds) ==
    IF \E n \in 1..Len(ds) : ds[n].k = "nan"
    THEN (CHOOSE n \in 1..Len(ds) :
             ds[n].k = "nan" /\ \A m \in 1..(n - 1) : ds[m].k # "nan") - 1
    ELSE (CHOOSE n \in 1..Len(ds) :
             /\ \A m \in 1..Len(ds) : ~Less(ds[m], ds[n])
             /\ \A m \in 1..(n - 1) : Less(ds[n], ds[m])) - 1

\* distances.min()
np_min(ds) == ds[np_argmin(ds) + 1]

\* unravel_index with row and column exchanged
unravel_index_swapped(flat, grid) ==
    IF flat >= grid[1] * grid[2]
    THEN [raised |-> TRUE, pos |-> <<0, 0>>]
    ELSE [raised |-> FALSE, pos |-> <<flat % grid[2], flat \div grid[2]>>]

\* np.unravel_index(flat, grid_sz): ValueError past the grid's size
unravel_index(flat, grid) ==
    IF flat >= grid[1] * grid[2]
    THEN [raised |-> TRUE, pos |-> <<0, 0>>]
    ELSE [raised |-> FALSE, pos |-> <<flat \div grid[2], flat % grid[2]>>]

\* SOM._find_bmu
find_bmu(x, w, grid) == unravel_index(np_argmin(dist_fn(x, w)), grid)

\* SOM._grid_distances: a rows x cols array of squared lattice distances
grid_distances(bmu, grid) ==
    [rc \in (0..(grid[1] - 1)) \X (0..(grid[2] - 1)) |->
        (bmu[1] - rc[1]) * (bmu[1] - rc[1]) + (bmu[2] - rc[2]) * (bmu[2] - rc[2])]

\* SOM._neighborhood_function at one cell: exp(-grid_dist / (2 * sigma**2)),
\* sigma a positive number (units)
neighborhood_function(gd, sigma) ==
    ExpFx(-((gd * FP * FP) \div ((2 * sigma * sigma) \div FP)))

\* whether `weights += lr * neighborhood[..., newaxis] * (x - weights)`
\* broadcasts: the rows x cols x 1 factor against the array's own shape, and
\* the product must not be larger than the array it is added to in place
UpdateBroadcasts(w, grid) ==
    /\ grid[1] = w.shape[1] \/ grid[1] = 1
    /\ grid[2] = w.shape[2] \/ grid[2] = 1

\* the rest of SOM._update_weights once the BMU is known: the new array
apply_update(w, x, bmu, lr, sigma, grid) ==
    IF w.nan \/ lr.k = "nan" \/ sigma.k = "nan"
    THEN [w EXCEPT !.nan = TRUE,
                   !.data = [n \in 1..NCells(w) |-> ZeroVec(w.shape[3])]]
    ELSE LET gd == grid_distances(bmu, grid)
             H(r, c) == neighborhood_function(
                           gd[<<IF grid[1] = 1 THEN 0 ELSE r,
                                IF grid[2] = 1 THEN 0 ELSE c>>], sigma.v)
             K(r, c) == (lr.v * H(r, c)) \div FP
         IN  [w EXCEPT !.data =
                [n \in 1..NCells(w) |->
                    LET r == (n - 1) \div w.shape[2]
                        c == (n - 1) % w.shape[2]
                    IN  [j \in 1..w.shape[3] |->
                            w.data[n][j] + (K(r, c) * (x[j] - w.data[n][j])) \div FP]]]

----------------------------------------------------------------------------
(* Metrics and queries.  Each is [raised, exc, val].                       *)

RECURSIVE SumMin(_, _, _)
SumMin(X, w, n) ==
    IF n = 0 THEN 0 ELSE np_min(dist_fn(X[n], w)).v + SumMin(X, w, n - 1)

\* SOM.quantization_error: the mean over X of the distance to the nearest
\* cell
quantization_error(X, w) ==
    [raised |-> FALSE, exc |-> "none",
     val |-> IF w.nan THEN NaN ELSE Num(SumMin(X, w, Len(X)) \div Len(X))]

\* np.argpartition(distances.flatten(), 2)[:2], 0-based: the two smallest,
\* NaN last; among equal distances the lower index comes first
TwoSmallest(ds) ==
    LET i1 == np_argmin(ds)
        rest == {n \in 1..Len(ds) : n # i1 + 1}
        i2 == IF \E n \in rest : ds[n].k = "num"
              THEN CHOOSE n \in rest :
                     /\ ds[n].k = "num"
                     /\ \A m \in rest : ~Less(ds[m], ds[n])
                     /\ \A m \in rest : m < n => Less(ds[n], ds[m])
              ELSE CHOOSE n \in rest : \A m \in rest : n <= m
    IN  <<i1, i2 - 1>>

\* _check_bmu_adjacency(x): "raise", or whether the two BMUs are not adjacent.
\* argpartition needs more than 2 elements (kth = 2 must be an index).
check_bmu_adjacency(x, w, grid) ==
    IF NCells(w) <= 2 THEN "raise"
    ELSE LET two == TwoSmallest(dist_fn(x, w))
             p == unravel_index(two[1], grid)
             q == unravel_index(two[2], grid)
         IN  IF p.raised \/ q.raised THEN "raise"
             ELSE IF Abs(p.pos[1] - q.pos[1]) > 1 \/ Abs(p.pos[2] - q.pos[2]) > 1
                  THEN "error" ELSE "ok"

\* SOM.topographic_error: 100 * n_errors / len(X)
topographic_error(X, w, grid) ==
    LET chk == [n \in 1..Len(X) |-> check_bmu_adjacency(X[n], w, grid)]
    IN  IF \E n \in 1..Len(X) : chk[n] = "raise"
        THEN [raised |-> TRUE, exc |-> "ValueError", val |-> NaN]
        ELSE [raised |-> FALSE, exc |-> "none",
              val |-> Num((100 * FP * Cardinality({n \in 1..Len(X) : chk[n] = "error"}))
                          \div Len(X))]

\* SOM.transform: one BMU coordinate per sample, or _find_bmu's exception
transform(X, w, grid) ==
    LET bmu == [n \in 1..Len(X) |-> find_bmu(X[n], w, grid)]
    IN  IF \E n \in 1..Len(X) : bmu[n].raised
        THEN [raised |-> TRUE, exc |-> "ValueError", val |-> <<>>]
        ELSE [raised |-> FALSE, exc |-> "none",
              val |-> [n \in 1..Len(X) |-> bmu[n].pos]]

\* SOM.predict
predict(X, w, grid) == transform(X, w, grid)

\* nbr_offsets
nbr_offsets ==
    <<<<-1, -1>>, <<-1, 0>>, <<-1, 1>>, <<0, -1>>, <<0, 1>>, <<1, -1>>, <<1, 0>>, <<1, 1>>>>

\* the offsets of _neighbor_distances(pos) that pass the bounds test
InBounds(pos, grid) ==
    {k \in 1..Len(nbr_offsets) :
        /\ pos[1] + nbr_offsets[k][1] >= 0 /\ pos[1] + nbr_offsets[k][1] < grid[1]
        /\ pos[2] + nbr_offsets[k][2] >= 0 /\ pos[2] + nbr_offsets[k][2] < grid[2]}

\* w = 1 / np.sqrt(dr**2 + dc**2): 1 for a side neighbour, 1/sqrt(2) for a
\* diagonal one
NbrWeight(k) ==
    IF nbr_offsets[k][1] # 0 /\ nbr_offsets[k][2] # 0 THEN (FP * FP) \div Isqrt(2 * FP * FP)
    ELSE FP

RECURSIVE SumOver(_, _, _)
\* the sum of F(k) over the k <= n of S
SumOver(F(_), S, n) ==
    IF n = 0 THEN 0 ELSE (IF n \in S THEN F(n) ELSE 0) + SumOver(F, S, n - 1)

\* _neighbor_distances(pos): [exc, val].  self.weights[r, c] is an index into
\* the array (IndexError outside its shape); np.average of no distances is a
\* ZeroDivisionError (the weights sum to zero).
neighbor_distances(pos, w, grid) ==
    LET S == InBounds(pos, grid)
        Inside(r, c) == r < w.shape[1] /\ c < w.shape[2]
        Nbr(k) == <<pos[1] + nbr_offsets[k][1], pos[2] + nbr_offsets[k][2]>>
        D(k) == NbrWeight(k) * Norm(Cell(w, pos[1], pos[2]), Cell(w, Nbr(k)[1], Nbr(k)[2]))
    IN  IF \E k \in S : ~Inside(pos[1], pos[2]) \/ ~Inside(Nbr(k)[1], Nbr(k)[2])
        THEN [exc |-> "IndexError", val |-> NaN]
        ELSE IF S = {} THEN [exc |-> "ZeroDivisionError", val |-> NaN]
        ELSE IF w.nan THEN [exc |-> "none", val |-> NaN]
        ELSE [exc |-> "none",
              val |-> Num(SumOver(D, S, Len(nbr_offsets))
                          \div SumOver(NbrWeight, S, Len(nbr_offsets)))]

\* SOM._calculate_umatrix: a rows x cols array, or the exception of the first
\* cell (in np.ndindex order) whose _neighbor_distances raises
calculate_umatrix(w, grid) ==
    LET cells == (0..(grid[1] - 1)) \X (0..(grid[2] - 1))
        nd == [rc \in cells |-> neighbor_distances(rc, w, grid)]
        bad == {rc \in cells : nd[rc].exc # "none"}
        first == CHOOSE rc \in bad :
                   \A o \in bad : rc[1] * grid[2] + rc[2] <= o[1] * grid[2] + o[2]
    IN  IF bad # {}
        THEN [raised |-> TRUE, exc |-> nd[first].exc, val |-> <<>>]
        ELSE [raised |-> FALSE, exc |-> "none", val |-> [rc \in cells |-> nd[rc].val]]

\* SOM.umatrix
umatrix(w, grid) == calculate_umatrix(w, grid)

----------------------------------------------------------------------------
(* Weight initialisation.  The random draws and the PCA routine are        *)
(* outside the program: np.random.randn returns one of the grids of        *)
(* RandnOutcomes, PCA one of the decompositions of PcaOutcomes.            *)

Seeds == {1, 2}

\* np.random.randn(rows, cols, dim): one grid per seed, components among
\* -1, -0.5, 0, 0.5 and 1
randn(seed, rows, cols, dim) ==
    [exists |-> TRUE, shape |-> <<rows, cols, dim>>, nan |-> FALSE,
     data |-> [n \in 1..(rows * cols) |->
                 [j \in 1..dim |-> (((seed * 3 + n * 5 + j * 7) % 5) - 2) * (FP \div 2)]]]

\* the unit vector of axis a, in units
UnitVec(a, d) == [j \in 1..d |-> IF j = a THEN FP ELSE 0]

\* PCA(n_components=2).fit(X): components_ and the square roots of
\* explained_variance_.  The two samples of a dataset differ by one unit
\* vector: the variance along it is 1/2 and the second variance is 0;
\* sklearn raises ValueError unless 2 <= min(n_samples, n_features)
PcaRaises(X) == Len(X) < 2 \/ Len(X[1]) < 2

PcaOutcomes(X) ==
    {[pc1 |-> UnitVec(1, Len(X[1])), pc2 |-> UnitVec(2, Len(X[1])),
      sd1 |-> Isqrt((FP * FP) \div 2), sd2 |-> 0]}

\* np.linspace(-1, 1, n)[k], k 0-based
linspace(k, n) == IF n = 1 THEN -FP ELSE -FP + (2 * FP * k) \div (n - 1)

\* SOM._initialize_weights_pca: both axes are sized by grid_sz[0], and the
\* components have the data's dimension
initialize_weights_pca(pca, grid) ==
    LET n == grid[1]
        d == Len(pca.pc1)
        alpha(k) == (linspace(k, n) * pca.sd1) \div FP
        beta(k) == (linspace(k, n) * pca.sd2) \div FP
    IN  [exists |-> TRUE, shape |-> <<n, n, d>>, nan |-> FALSE,
         data |-> [m \in 1..(n * n) |->
                     LET r == (m - 1) \div n
                         c == (m - 1) % n
                     IN  [j \in 1..d |->
                            (alpha(c) * pca.pc1[j] + beta(r) * pca.pc2[j]) \div FP]]]

\* SOM._initialize_weights: the set of [raised, w] it can return
initialize_weights(X, method, grid, input_dim) ==
    IF method = "random"
    THEN {[raised |-> FALSE, w |-> randn(seed, grid[1], grid[2], input_dim)] :
             seed \in Seeds}
    ELSE IF PcaRaises(X)
         THEN {[raised |-> TRUE, w |-> NoWeights]}
         ELSE {[raised |-> FALSE, w |-> initialize_weights_pca(pca, grid)] :
                  pca \in PcaOutcomes(X)}

----------------------------------------------------------------------------
(* Bounds of the model.                                                    *)

MaxEpochs == 2      \* n_epochs is at most this
MaxStepSize == 2    \* step_size of a caller's scheduler is at most this
MaxFits == 2        \* fit is called at most this many times on one model
MaxCalls == 4       \* step() is called at most this many times on one scheduler
MaxTotal == 3       \* the argument of a direct step() call is at most this

\* the step_size of the schedulers fit builds when none is passed
DefaultStepSize == 100

\* a run of enough epochs for the default schedule to have a step to take
LongRun == DefaultStepSize

GridSizes == {<<1, 1>>, <<1, 2>>, <<2, 1>>, <<2, 2>>, <<1, 3>>}
Dims == {1, 2}
SampleCounts == {1, 2}

\* the samples datasets are made of: the first unit vector and the origin
Samples(d) == <<UnitVec(1, d), ZeroVec(d)>>

\* the datasets of d features: the first n samples, n in SampleCounts
Datasets(d) == {SubSeq(Samples(d), 1, n) : n \in SampleCounts}

\* (start_val, end_val) of the schedulers built directly: the default
\* learning rate 1.0 -> 0.01, radii 0.5 -> 1.0, 1.0 -> 1.0 and 1.5 -> 1.0, and
\* a zero on either side
SchedPairs ==
    {<<FP, FP \div 100>>, <<FP \div 2, FP>>, <<FP, FP>>, <<(3 * FP) \div 2, FP>>,
     <<0, FP>>, <<FP, 0>>}

\* the permutations of 1..n
Perms(n) == {p \in [1..n -> 1..n] : \A a, b \in 1..n : p[a] = p[b] => a = b}

----------------------------------------------------------------------------
VARIABLES
    \* the SOM object
    grid_sz, input_dim, init, weights,
    \* the arguments of fit; sched_step = 0: no scheduler is passed (the
    \* defaults are built), otherwise the caller passes a learning-rate and a
    \* radius scheduler of that step_size
    X, n_epochs, shuffle, sched_step,
    \* fit's position and locals
    pc, epoch, i, X_, total_samples, lr_scheduler, sigma_scheduler, lr, sigma,
    bmu_pos, qe_errors, te_errors,
    \* what the last call returned or raised
    fit_ret, exc, q_ret, last_op,
    \* history: fit calls so far; in the current fit, the weight updates
    \* applied, the count each scheduler was last stepped with, the number of
    \* updates the grid had when the BMU search read it, and per metric
    \* computation the updates applied and whether it ran on X itself
    n_fits, n_updates, lr_arg, sigma_arg, bmu_version, metric_log,
    \* a Scheduler built and stepped directly
    sched, sched_exc, last_call, div_calls, n_calls

som_vars == <<grid_sz, input_dim, init, weights, X, n_epochs, shuffle, sched_step,
              pc, epoch, i, X_, total_samples, lr_scheduler, sigma_scheduler, lr,
              sigma, bmu_pos, qe_errors, te_errors, fit_ret, exc, q_ret, last_op,
              n_fits, n_updates, lr_arg, sigma_arg, bmu_version, metric_log>>
sched_vars == <<sched, sched_exc, last_call, div_calls, n_calls>>
vars == <<som_vars, sched_vars>>

NoCall == [made |-> FALSE, arg |-> 0, pre_step |-> 0, pre_value |-> Num(0),
           ret |-> Num(0), raised |-> FALSE]
NoReturn == [returned |-> FALSE, weights |-> NoWeights, qe_errors |-> <<>>,
             te_errors |-> <<>>]
NoQuery == [raised |-> FALSE, exc |-> "none", val |-> <<>>]

\* SOM.__init__ (weights = None), before any call
SomInit ==
    /\ weights = NoWeights
    /\ pc = "idle" /\ epoch = 0 /\ i = 0 /\ X_ = <<>> /\ total_samples = 0
    /\ lr_scheduler = NoScheduler /\ sigma_scheduler = NoScheduler
    /\ lr = Num(0) /\ sigma = Num(0) /\ bmu_pos = <<0, 0>>
    /\ qe_errors = <<>> /\ te_errors = <<>>
    /\ fit_ret = NoReturn /\ exc = "none" /\ q_ret = NoQuery /\ last_op = "init"
    /\ n_fits = 0 /\ n_updates = 0 /\ lr_arg = -1 /\ sigma_arg = -1
    /\ bmu_version = 0 /\ metric_log = <<>>

SchedInit ==
    /\ sched = NoScheduler /\ sched_exc = "none" /\ last_call = NoCall
    /\ div_calls = 0 /\ n_calls = 0

Init ==
    /\ grid_sz \in GridSizes
    /\ input_dim \in Dims
    /\ init \in {"random", "pca"}
    /\ X \in Datasets(input_dim)
    /\ shuffle \in BOOLEAN
    /\ sched_step \in {0, 1, MaxStepSize}
    /\ \/ n_epochs \in 0..MaxEpochs
       \/ n_epochs = LongRun /\ sched_step = 0 /\ ~shuffle
    /\ SomInit
    /\ SchedInit

----------------------------------------------------------------------------
(* SOM.fit, one action per position.                                       *)

\* the two schedulers of a fit call: the defaults of fit when none is passed,
\* else the caller's, built over the same data and epochs
FitSchedulers(step_size) ==
    [lr |-> Scheduler(FP, FP \div 100, step_size, Len(X), n_epochs).obj,
     sigma |-> Scheduler((Max2(grid_sz[1], grid_sz[2]) * FP) \div 2, FP,
                         step_size, Len(X), n_epochs).obj]

\* the running count without the epoch's offset scaled by len(X)
TotalSamplesUnscaled(e, n, k) == e + k

\* total_samples = epoch * len(X) + i
TotalSamples(e, n, k) == e * n + k

\* the dataset the epoch's metrics are computed on
MetricsData(orig, shuffled) == orig

\* the metrics moved into the sample loop
AfterSampleEarly(k, n) == "metrics"

\* fit's position after the update of sample k of epoch e (0-based)
AfterSample(k, n) == IF k + 1 < n THEN "sched" ELSE "metrics"

config == <<grid_sz, input_dim, init, X, n_epochs, shuffle, sched_step>>

\* an exception leaves fit: the weights stay as mutated so far
Abort(e) ==
    /\ pc' = "idle"
    /\ exc' = e
    /\ last_op' = "fit_raised"

\* lines 234-243: the weights are created if there are none, the schedulers
\* are set up, the result lists are emptied
FitStart ==
    /\ pc = "idle"
    /\ n_fits < MaxFits
    /\ n_fits' = n_fits + 1
    /\ \E iw \in (IF weights.exists THEN {[raised |-> FALSE, w |-> weights]}
                  ELSE initialize_weights(X, init, grid_sz, input_dim)) :
         IF iw.raised
         THEN /\ Abort("ValueError")
              /\ UNCHANGED <<weights, epoch, lr_scheduler, sigma_scheduler,
                             qe_errors, te_errors, n_updates, lr_arg, sigma_arg,
                             metric_log>>
         ELSE LET sc == FitSchedulers(IF sched_step = 0 THEN DefaultStepSize
                                      ELSE sched_step)
              IN  /\ weights' = iw.w
                  /\ lr_scheduler' = sc.lr
                  /\ sigma_scheduler' = sc.sigma
                  /\ qe_errors' = <<>>
                  /\ te_errors' = <<>>
                  /\ epoch' = 0
                  /\ pc' = IF n_epochs = 0 THEN "return" ELSE "epoch"
                  /\ exc' = "none"
                  /\ last_op' = "fit"
                  /\ n_updates' = 0
                  /\ lr_arg' = -1
                  /\ sigma_arg' = -1
                  /\ metric_log' = <<>>
    /\ fit_ret' = NoReturn
    /\ q_ret' = NoQuery
    /\ UNCHANGED <<config, i, X_, total_samples, lr, sigma, bmu_pos, bmu_version,
                   sched_vars>>

\* line 245: X_ = np.random.permutation(X) if shuffle else X.copy()
EpochStart ==
    /\ pc = "epoch"
    /\ \E p \in Perms(Len(X)) :
         /\ shuffle \/ p = [n \in 1..Len(X) |-> n]
         /\ X_' = [n \in 1..Len(X) |-> X[p[n]]]
    /\ i' = 0
    /\ pc' = "sched"
    /\ UNCHANGED <<config, weights, epoch, total_samples, lr_scheduler,
                   sigma_scheduler, lr, sigma, bmu_pos, qe_errors, te_errors,
                   fit_ret, exc, q_ret, last_op, n_fits, n_updates, lr_arg,
                   sigma_arg, bmu_version, metric_log, sched_vars>>

\* lines 249-251: the running count, then both schedulers are stepped with it
StepSchedulers ==
    /\ pc = "sched"
    /\ LET t == TotalSamples(epoch, Len(X), i)
           a == step(lr_scheduler, t)
           b == step(sigma_scheduler, t)
       IN  /\ total_samples' = t
           /\ IF a.raised \/ b.raised
              THEN /\ Abort("ZeroDivisionError")
                   /\ UNCHANGED <<lr_scheduler, sigma_scheduler, lr, sigma,
                                  lr_arg, sigma_arg>>
              ELSE /\ lr_scheduler' = a.obj
                   /\ sigma_scheduler' = b.obj
                   /\ lr' = a.ret
                   /\ sigma' = b.ret
                   /\ lr_arg' = t
                   /\ sigma_arg' = t
                   /\ pc' = "bmu"
                   /\ UNCHANGED <<exc, last_op>>
    /\ UNCHANGED <<config, weights, epoch, i, X_, bmu_pos, qe_errors, te_errors,
                   fit_ret, q_ret, n_fits, n_updates, bmu_version, metric_log,
                   sched_vars>>

\* line 173 (in _update_weights): the BMU of the sample on the current grid
FindBmu ==
    /\ pc = "bmu"
    /\ LET b == find_bmu(X_[i + 1], weights, grid_sz)
       IN  IF b.raised
           THEN /\ Abort("ValueError")
                /\ UNCHANGED <<bmu_pos, bmu_version>>
           ELSE /\ bmu_pos' = b.pos
                /\ bmu_version' = n_updates
                /\ pc' = "update"
                /\ UNCHANGED <<exc, last_op>>
    /\ UNCHANGED <<config, weights, epoch, i, X_, total_samples, lr_scheduler,
                   sigma_scheduler, lr, sigma, qe_errors, te_errors, fit_ret,
                   q_ret, n_fits, n_updates, lr_arg, sigma_arg, metric_log,
                   sched_vars>>

\* lines 174-176: the neighbourhood update of the whole grid, in place
UpdateWeights ==
    /\ pc = "update"
    /\ IF ~UpdateBroadcasts(weights, grid_sz)
       THEN /\ Abort("ValueError")
            /\ UNCHANGED <<weights, i, n_updates>>
       ELSE /\ weights' = apply_update(weights, X_[i + 1], bmu_pos, lr, sigma, grid_sz)
            /\ n_updates' = n_updates + 1
            /\ i' = i + 1
            /\ pc' = AfterSample(i, Len(X))
            /\ UNCHANGED <<exc, last_op>>
    /\ UNCHANGED <<config, epoch, X_, total_samples, lr_scheduler, sigma_scheduler,
                   lr, sigma, bmu_pos, qe_errors, te_errors, fit_ret, q_ret,
                   n_fits, lr_arg, sigma_arg, bmu_version, metric_log, sched_vars>>

\* lines 255-258: both errors over the dataset, appended to the result lists
EpochMetrics ==
    /\ pc = "metrics"
    /\ LET data == MetricsData(X, X_)
           qe == quantization_error(data, weights)
           te == topographic_error(data, weights, grid_sz)
       IN  IF te.raised
           THEN /\ Abort(te.exc)
                /\ UNCHANGED <<qe_errors, te_errors, epoch, metric_log>>
           ELSE /\ qe_errors' = Append(qe_errors, qe.val)
                /\ te_errors' = Append(te_errors, te.val)
                /\ metric_log' = Append(metric_log,
                                        [updates |-> n_updates, orig |-> data = X])
                /\ epoch' = epoch + 1
                /\ pc' = IF epoch + 1 < n_epochs THEN "epoch" ELSE "return"
                /\ UNCHANGED <<exc, last_op>>
    /\ UNCHANGED <<config, weights, i, X_, total_samples, lr_scheduler,
                   sigma_scheduler, lr, sigma, bmu_pos, fit_ret, q_ret, n_fits,
                   n_updates, lr_arg, sigma_arg, bmu_version, sched_vars>>

\* line 263: return self.weights, qe_errors, te_errors
FitReturn ==
    /\ pc = "return"
    /\ fit_ret' = [returned |-> TRUE, weights |-> weights, qe_errors |-> qe_errors,
                   te_errors |-> te_errors]
    /\ pc' = "idle"
    /\ last_op' = "fit_returned"
    /\ UNCHANGED <<config, weights, epoch, i, X_, total_samples, lr_scheduler,
                   sigma_scheduler, lr, sigma, bmu_pos, qe_errors, te_errors, exc,
                   q_ret, n_fits, n_updates, lr_arg, sigma_arg, bmu_version,
                   metric_log, sched_vars>>

----------------------------------------------------------------------------
(* The queries, called on a model that has weights, between fit calls.     *)

Query(op, r) ==
    /\ pc = "idle"
    /\ weights.exists
    /\ q_ret' = r
    /\ last_op' = op
    /\ UNCHANGED <<config, weights, pc, epoch, i, X_, total_samples, lr_scheduler,
                   sigma_scheduler, lr, sigma, bmu_pos, qe_errors, te_errors,
                   fit_ret, exc, n_fits, n_updates, lr_arg, sigma_arg,
                   bmu_version, metric_log, sched_vars>>

Transform == Query("transform", transform(X, weights, grid_sz))
Predict == Query("predict", predict(X, weights, grid_sz))
QuantizationError == Query("quantization_error", quantization_error(X, weights))
TopographicError == Query("topographic_error", topographic_error(X, weights, grid_sz))
Umatrix == Query("umatrix", umatrix(weights, grid_sz))

Next ==
    \/ FitStart
    \/ EpochStart
    \/ StepSchedulers
    \/ FindBmu
    \/ UpdateWeights
    \/ EpochMetrics
    \/ FitReturn
    \/ Transform
    \/ Predict
    \/ QuantizationError
    \/ TopographicError
    \/ Umatrix

Spec == Init /\ [][Next]_vars

----------------------------------------------------------------------------
(* A Scheduler built and stepped directly by a caller.                     *)

\* Scheduler(start_val, end_val, step_size, n_samples, n_epochs)
Construct ==
    /\ ~sched.alive
    /\ sched_exc = "none"
    /\ \E pair \in SchedPairs, ss \in 0..MaxStepSize, ns \in SampleCounts,
          ne \in 1..MaxEpochs :
         LET r == Scheduler(pair[1], pair[2], ss, ns, ne)
         IN  /\ sched' = r.obj
             /\ sched_exc' = IF r.raised THEN "ZeroDivisionError" ELSE "none"
    /\ UNCHANGED <<som_vars, last_call, div_calls, n_calls>>

\* sched.step(total_samples); div_calls counts the calls that returned and
\* whose argument was a multiple of step_size
StepCall ==
    /\ sched.alive
    /\ n_calls < MaxCalls
    /\ \E t \in 0..MaxTotal :
         LET r == step(sched, t)
         IN  /\ sched' = r.obj
             /\ sched_exc' = IF r.raised THEN "ZeroDivisionError" ELSE "none"
             /\ last_call' = [made |-> TRUE, arg |-> t,
                              pre_step |-> sched.current_step,
                              pre_value |-> sched.current_value,
                              ret |-> r.ret, raised |-> r.raised]
             /\ div_calls' = IF ~r.raised /\ t % sched.step_size = 0
                             THEN div_calls + 1 ELSE div_calls
    /\ n_calls' = n_calls + 1
    /\ UNCHANGED som_vars

InitSched ==
    /\ grid_sz = <<1, 1>>
    /\ input_dim = 1
    /\ init = "random"
    /\ X = <<ZeroVec(1)>>
    /\ n_epochs = 0
    /\ shuffle = FALSE
    /\ sched_step = 0
    /\ SomInit
    /\ SchedInit

NextSched == Construct \/ StepCall

SpecSched == InitSched /\ [][NextSched]_vars

----------------------------------------------------------------------------
(* Properties.                                                             *)

C2_FirstStepReturnsStart ==
    (/\ n_calls = 1
     /\ last_call.arg = 0
     /\ sched.start_val > 0
     /\ sched.end_val > 0)
    => (~last_call.raised /\ last_call.ret = Num(sched.start_val))

\* C3: no Scheduler exists with step_size = 0, start_val = 0 or end_val = 0:
\* the constructor rejects each of them.
C3_InvalidRejected ==
    sched.alive => (sched.step_size # 0 /\ sched.start_val # 0 /\ sched.end_val # 0)

\* C4: the weight grid, once fit has created it, has shape
\* (rows, cols, input_dim), in every later state.
C4_ShapeInvariant ==
    weights.exists => weights.shape = <<grid_sz[1], grid_sz[2], input_dim>>

\* C5: the two error lists grow together, one entry per epoch; entry k
\* (k = 1..) is computed on the dataset X itself when exactly k * len(X)
\* updates of this fit call have been applied; a fit call that returns
\* returns n_epochs entries in each list.
C5_MetricsPerEpoch ==
    /\ Len(qe_errors) = Len(metric_log)
    /\ Len(te_errors) = Len(metric_log)
    /\ \A k \in 1..Len(metric_log) :
         metric_log[k].updates = k * Len(X) /\ metric_log[k].orig
    /\ pc \in {"epoch", "sched", "bmu", "update", "metrics"} => Len(metric_log) = epoch
    /\ pc = "return" => Len(metric_log) = n_epochs
    /\ fit_ret.returned =>
         /\ Len(fit_ret.qe_errors) = n_epochs
         /\ Len(fit_ret.te_errors) = n_epochs
         /\ fit_ret.qe_errors = qe_errors
         /\ fit_ret.te_errors = te_errors

\* a fit of two epochs over two samples, the last epoch in shuffled order,
\* has returned numbers
C5_Witness ==
    /\ fit_ret.returned
    /\ n_epochs = 2
    /\ Len(X) = 2
    /\ X_ # X
    /\ Len(fit_ret.qe_errors) = 2
    /\ fit_ret.qe_errors[2].k = "num"
    /\ n_updates = 4

\* C6: on a 1 x 1 grid with weights, topographic_error returns 0.
C6_SingleCellTopographicError ==
    (last_op = "topographic_error" /\ grid_sz = <<1, 1>>)
    => (~q_ret.raised /\ q_ret.val = Num(0))

\* C7: umatrix() on a model whose weights have the grid's shape returns an
\* array of shape (rows, cols).
C7_UmatrixShape ==
    (/\ last_op = "umatrix"
     /\ weights.shape = <<grid_sz[1], grid_sz[2], input_dim>>)
    => (/\ ~q_ret.raised
        /\ DOMAIN q_ret.val = (0..(grid_sz[1] - 1)) \X (0..(grid_sz[2] - 1)))

C9_SampleOrder ==
    /\ pc \in {"bmu", "update"} =>
         /\ total_samples = epoch * Len(X) + i
         /\ total_samples = n_updates
         /\ lr_arg = total_samples
         /\ sigma_arg = total_samples
    /\ pc = "update" => bmu_version = n_updates
    /\ pc \in {"epoch", "sched", "metrics", "return"} =>
         /\ lr_arg = n_updates - 1
         /\ sigma_arg = n_updates - 1
    /\ pc # "idle" => n_updates <= Len(X) * n_epochs
    /\ pc = "return" => n_updates = Len(X) * n_epochs

\* the second sample of the second epoch is about to update a grid of
\* numbers: both schedulers hold the count 3
C9_Witness ==
    /\ pc = "update"
    /\ epoch = 1
    /\ i = 1
    /\ total_samples = 3
    /\ lr_arg = 3
    /\ sigma_arg = 3
    /\ lr.k = "num"
    /\ ~weights.nan

\* C10: in a fit with the default schedulers, every decay index used is at
\* most total_steps, and neither the learning rate nor the radius handed to
\* the update is below its end value (0.01 and 1.0).
C10_DefaultScheduleInRange ==
    (sched_step = 0 /\ pc = "bmu") =>
        /\ lr_scheduler.current_step - 1 <= lr_scheduler.total_steps
        /\ sigma_scheduler.current_step - 1 <= sigma_scheduler.total_steps
        /\ ~Less(lr, Num(FP \div 100))
        /\ ~Less(sigma, Num(FP))

====
